---- MODULE Spec2Model ----
(***************************************************************************)
(* Model of DcDcConverter.py: a ctypes binding over the vendor library     *)
(* DCDCUsbLib.  The vendor library is the environment: every result it     *)
(* returns is drawn from the value range of the declared restype.  The     *)
(* record `calls` is what a stub standing in for the library would record: *)
(* the vendor functions invoked by the operation in progress, in order,    *)
(* with the arguments received and the result handed back.                 *)
(***************************************************************************)
EXTENDS Integers, Sequences, FiniteSets, TLC

\* ------------------------------------------------------------------ bounds
MaxDev == 2
MaxTimer == 2
MaxTimeout == 2
MaxStart == 1
MaxOvershoot == 1
MaxPollsPerTick == 2
MaxOddCodes == 1
MaxOps == 4
MaxCnt == 1

\* ------------------------------------------------------- program constants
MsPerSecond == 1000
UByteMax == 255

\* A Python name that is not bound yet, and the result of a restype None call.
None == 0 - 1

\* Sampled values of a c_ubyte result (the two documented codes, the first
\* undocumented one and the largest).
UByteResults == {0, 1, 2, UByteMax}

\* Every value of the c_ubyte result of dcdcOpenDeviceByCnt.
OpenResults == 0..UByteMax

VARIABLES
    pc,                 \* position of __init__
    devcount,           \* __init__ argument
    timer,              \* __init__ argument, seconds
    connectiontimeout,  \* __init__ argument, seconds
    self_timer,         \* self.timer, milliseconds
    clock,              \* time.monotonic()
    start,              \* what monotonic() returned when the deadline was set
    timeout,            \* local `timeout` of __init__ (the deadline)
    guardClock,         \* last monotonic() read by the while condition
    connection_status,  \* local `connection_status` of __init__
    sleepStart,         \* clock when sleep(timer) was entered
    pollsThisTick,      \* GetConnected calls since the clock last advanced
    calls,              \* vendor calls recorded for the operation in progress
    op,                 \* the method of the session invoked last
    opArgs,             \* the arguments its caller passed
    opRet,              \* the value it returned to its caller
    nOps,               \* methods invoked on the session so far
    writes,             \* dcdcSetVariableData calls recorded so far
    loadStarted,        \* vendor library: dcdcLoadFlashValues was called
    loadComplete,       \* vendor library: dcdcGetLoadState has reported 100
    flash,              \* vendor library: its PC copy of the flash variables
    valueBuf,           \* the caller's `value` buffer of GetVariableData
    earlyRead           \* last GetVariableData result from before loadComplete

ctorVars == <<pc, devcount, timer, connectiontimeout, self_timer, clock,
              start, timeout, guardClock, connection_status, sleepStart,
              pollsThisTick>>

opVars == <<op, opArgs, opRet, nOps, writes>>

envVars == <<loadStarted, loadComplete, flash, valueBuf, earlyRead>>

sessVars == <<opVars, envVars>>

vars == <<ctorVars, calls, sessVars>>

\* ------------------------------------------------------------ the wrappers
\* One recorded vendor call.
Call(fn, args, r) == [fn |-> fn, args |-> args, ret |-> r]

\* A wrapper applied to the record so far: the record afterwards and the
\* value the wrapper returns to its caller.  The parameter r is the result
\* the vendor function hands back.
\* OpenDevice trying a second time when the first call fails.
OpenDeviceRetry(log, t, r) ==
    IF r = 0
    THEN [log |-> log \o <<Call("dcdcOpenDevice", <<t>>, r),
                           Call("dcdcOpenDevice", <<t>>, r)>>, ret |-> r]
    ELSE [log |-> Append(log, Call("dcdcOpenDevice", <<t>>, r)), ret |-> r]

OpenDevice(log, t, r) ==
    [log |-> Append(log, Call("dcdcOpenDevice", <<t>>, r)), ret |-> r]

OpenDeviceByCnt(log, dc, t, r) ==
    [log |-> Append(log, Call("dcdcOpenDeviceByCnt", <<dc, t>>, r)), ret |-> r]

GetDevicePath(log, path) ==
    [log |-> Append(log, Call("dcdcGetDevicePath", <<path>>, None)), ret |-> None]

CloseDevice(log) ==
    [log |-> Append(log, Call("dcdcCloseDevice", <<>>, None)), ret |-> None]

GetConnected(log, r) ==
    [log |-> Append(log, Call("dcdcGetConnected", <<>>, r)), ret |-> r]

GetTimeCfg(log, r) ==
    [log |-> Append(log, Call("dcdcGetTimeCfg", <<>>, r)), ret |-> r]

GetVoltageCfg(log, r) ==
    [log |-> Append(log, Call("dcdcGetVoltageCfg", <<>>, r)), ret |-> r]

GetMode(log, r) ==
    [log |-> Append(log, Call("dcdcGetMode", <<>>, r)), ret |-> r]

GetState(log, r) ==
    [log |-> Append(log, Call("dcdcGetState", <<>>, r)), ret |-> r]

GetVin(log, r) ==
    [log |-> Append(log, Call("dcdcGetVin", <<>>, r)), ret |-> r]

GetVIgn(log, r) ==
    [log |-> Append(log, Call("dcdcGetVIgn", <<>>, r)), ret |-> r]

GetVOut(log, r) ==
    [log |-> Append(log, Call("dcdcGetVOut", <<>>, r)), ret |-> r]

GetEnabledPowerSwitch(log, r) ==
    [log |-> Append(log, Call("dcdcGetEnabledPowerSwitch", <<>>, r)), ret |-> r]

GetEnabledOutput(log, r) ==
    [log |-> Append(log, Call("dcdcGetEnabledOutput", <<>>, r)), ret |-> r]

GetEnabledAuxVOut(log, r) ==
    [log |-> Append(log, Call("dcdcGetEnabledAuxVOut", <<>>, r)), ret |-> r]

GetFlagsStatus1(log, r) ==
    [log |-> Append(log, Call("dcdcGetFlagsStatus1", <<>>, r)), ret |-> r]

GetFlagsStatus2(log, r) ==
    [log |-> Append(log, Call("dcdcGetFlagsStatus2", <<>>, r)), ret |-> r]

GetFlagsVoltage(log, r) ==
    [log |-> Append(log, Call("dcdcGetFlagsVoltage", <<>>, r)), ret |-> r]

GetFlagsTimer(log, r) ==
    [log |-> Append(log, Call("dcdcGetFlagsTimer", <<>>, r)), ret |-> r]

GetFlashPointer(log, r) ==
    [log |-> Append(log, Call("dcdcGetFlashPointer", <<>>, r)), ret |-> r]

GetTimerWait(log, r) ==
    [log |-> Append(log, Call("dcdcGetTimerWait", <<>>, r)), ret |-> r]

GetTimerVout(log, r) ==
    [log |-> Append(log, Call("dcdcGetTimerVout", <<>>, r)), ret |-> r]

GetTimerVAux(log, r) ==
    [log |-> Append(log, Call("dcdcGetTimerVAux", <<>>, r)), ret |-> r]

GetTimerPwSwitch(log, r) ==
    [log |-> Append(log, Call("dcdcGetTimerPwSwitch", <<>>, r)), ret |-> r]

GetTimerOffDelay(log, r) ==
    [log |-> Append(log, Call("dcdcGetTimerOffDelay", <<>>, r)), ret |-> r]

GetTimerHardOff(log, r) ==
    [log |-> Append(log, Call("dcdcGetTimerHardOff", <<>>, r)), ret |-> r]

GetVersionMajor(log, r) ==
    [log |-> Append(log, Call("dcdcGetVersionMajor", <<>>, r)), ret |-> r]

GetVersionMinor(log, r) ==
    [log |-> Append(log, Call("dcdcGetVersionMinor", <<>>, r)), ret |-> r]

\* str() of a non-negative int: its decimal digits, most significant first.
DigitChar(d) == <<"0", "1", "2", "3", "4", "5", "6", "7", "8", "9">>[d + 1]

RECURSIVE Str(_)
Str(n) == IF n < 10 THEN <<DigitChar(n)>>
          ELSE Str(n \div 10) \o <<DigitChar(n % 10)>>

\* GetVersion composing the two numbers in the wrong order.
GetVersionSwapped(log, major, minor) ==
    LET fw_ver_major == GetVersionMajor(log, major)
        fw_ver_minor == GetVersionMinor(fw_ver_major.log, minor)
    IN  [log |-> fw_ver_minor.log,
         ret |-> Str(fw_ver_minor.ret) \o <<".">> \o Str(fw_ver_major.ret)]

\* major and minor are the results of the two vendor version getters.
GetVersion(log, major, minor) ==
    LET fw_ver_major == GetVersionMajor(log, major)
        fw_ver_minor == GetVersionMinor(fw_ver_major.log, minor)
    IN  [log |-> fw_ver_minor.log,
         ret |-> Str(fw_ver_major.ret) \o <<".">> \o Str(fw_ver_minor.ret)]

SetEnabledAuxVOut(log, on) ==
    [log |-> Append(log, Call("dcdcSetEnabledAuxVOut", <<on>>, None)), ret |-> None]

SetEnabledPowerSwitch(log, on) ==
    [log |-> Append(log, Call("dcdcSetEnabledPowerSwitch", <<on>>, None)), ret |-> None]

SetEnabledOutput(log, on) ==
    [log |-> Append(log, Call("dcdcSetEnabledOutput", <<on>>, None)), ret |-> None]

IncDecVOutVolatile(log, inc) ==
    [log |-> Append(log, Call("dcdcIncDecVOutVolatile", <<inc>>, None)), ret |-> None]

SetVOutVolatile(log, vout) ==
    [log |-> Append(log, Call("dcdcSetVOutVolatile", <<vout>>, None)), ret |-> None]

LoadFlashValues(log) ==
    [log |-> Append(log, Call("dcdcLoadFlashValues", <<>>, None)), ret |-> None]

GetLoadState(log, r) ==
    [log |-> Append(log, Call("dcdcGetLoadState", <<>>, r)), ret |-> r]

GetMaxVariableCnt(log, r) ==
    [log |-> Append(log, Call("dcdcGetMaxVariableCnt", <<>>, r)), ret |-> r]

\* GetVariableData answering 0 by itself until a load has completed.
GetVariableDataGuarded(log, cnt, name, value, unit, comment, r) ==
    IF loadComplete
    THEN [log |-> Append(log, Call("dcdcGetVariableData",
                                   <<cnt, name, value, unit, comment>>, r)),
          ret |-> r]
    ELSE [log |-> log, ret |-> 0]

GetVariableData(log, cnt, name, value, unit, comment, r) ==
    [log |-> Append(log, Call("dcdcGetVariableData",
                              <<cnt, name, value, unit, comment>>, r)),
     ret |-> r]

SetVariableData(log, cnt, value, r) ==
    [log |-> Append(log, Call("dcdcSetVariableData", <<cnt, value>>, r)),
     ret |-> r]

\* SaveFlashValues writing a variable again before it saves.
SaveFlashValuesRewrites(log) ==
    [log |-> log \o <<Call("dcdcSetVariableData", <<0, 0>>, 1),
                      Call("dcdcSaveFlashValues", <<>>, None)>>,
     ret |-> None]

SaveFlashValues(log) ==
    [log |-> Append(log, Call("dcdcSaveFlashValues", <<>>, None)), ret |-> None]

\* The string buffer __init__ allocates for the device path.
DevPathBuffer == "dev_path"

\* The results dcdcGetConnected hands to the polling loop: the documented
\* codes 0 and 1, and at most MaxOddCodes undocumented ones in one run.
OddCodes(log) ==
    Cardinality({i \in 1..Len(log) : log[i].fn = "dcdcGetConnected"
                                      /\ log[i].ret \notin {0, 1}})

PollResults(log) ==
    {0, 1} \cup (IF OddCodes(log) < MaxOddCodes THEN {UByteMax} ELSE {})

\* ------------------------------------------------------------ __init__
CtorInit ==
    /\ pc = "open"
    /\ devcount \in 1..MaxDev
    /\ timer \in 0..MaxTimer
    /\ connectiontimeout \in 0..MaxTimeout
    /\ self_timer = None
    /\ clock = 0
    /\ start = None
    /\ timeout = None
    /\ guardClock = None
    /\ connection_status = None
    /\ sleepStart = None
    /\ pollsThisTick = 0
    /\ calls = <<>>

\* No method of the session has been invoked yet; the vendor library has
\* loaded nothing.
SessionFresh ==
    /\ op = "__init__"
    /\ opArgs = <<>>
    /\ opRet = None
    /\ nOps = 0
    /\ writes = 0
    /\ loadStarted = FALSE
    /\ loadComplete = FALSE
    /\ valueBuf = None
    /\ earlyRead = <<>>

\* CtorOpen with the refresh period handed to the open call in seconds.
CtorOpenSeconds ==
    /\ pc = "open"
    /\ \E r \in OpenResults :
         LET w == OpenDeviceByCnt(calls, devcount, timer, r) IN
           /\ calls' = w.log
           /\ connection_status' = w.ret
    /\ self_timer' = timer
    /\ pc' = "branch"
    /\ UNCHANGED <<devcount, timer, connectiontimeout, clock, start, timeout,
                   guardClock, sleepStart, pollsThisTick>>
    /\ UNCHANGED sessVars

\* self.timer = timer * 1000; connection_status = self.OpenDeviceByCnt(...)
CtorOpen ==
    /\ pc = "open"
    /\ \E r \in OpenResults :
         LET w == OpenDeviceByCnt(calls, devcount, timer * MsPerSecond, r) IN
           /\ calls' = w.log
           /\ connection_status' = w.ret
    /\ self_timer' = timer * MsPerSecond
    /\ pc' = "branch"
    /\ UNCHANGED <<devcount, timer, connectiontimeout, clock, start, timeout,
                   guardClock, sleepStart, pollsThisTick>>
    /\ UNCHANGED sessVars

\* CtorBranch polling whatever the open call returned.
CtorBranchAlwaysPoll ==
    /\ pc = "branch"
    /\ pc' = "deadline"
    /\ UNCHANGED <<devcount, timer, connectiontimeout, self_timer, clock,
                   start, timeout, guardClock, connection_status, sleepStart,
                   pollsThisTick, calls>>
    /\ UNCHANGED sessVars

\* CtorBranch polling after every result of the open call but 1.
CtorBranchPollUnlessOne ==
    /\ pc = "branch"
    /\ pc' = IF connection_status = 1 THEN "try" ELSE "deadline"
    /\ UNCHANGED <<devcount, timer, connectiontimeout, self_timer, clock,
                   start, timeout, guardClock, connection_status, sleepStart,
                   pollsThisTick, calls>>
    /\ UNCHANGED sessVars

\* if connection_status == 1: pass / elif connection_status == 0: ... loop
CtorBranch ==
    /\ pc = "branch"
    /\ pc' = IF connection_status = 1 THEN "try"
             ELSE IF connection_status = 0 THEN "deadline"
             ELSE "try"
    /\ UNCHANGED <<devcount, timer, connectiontimeout, self_timer, clock,
                   start, timeout, guardClock, connection_status, sleepStart,
                   pollsThisTick, calls>>
    /\ UNCHANGED sessVars

\* timeout = monotonic() + connectiontimeout
CtorDeadline ==
    /\ pc = "deadline"
    /\ start' = clock
    /\ timeout' = clock + connectiontimeout
    /\ pc' = "guard"
    /\ UNCHANGED <<devcount, timer, connectiontimeout, self_timer, clock,
                   guardClock, connection_status, sleepStart, pollsThisTick,
                   calls>>
    /\ UNCHANGED sessVars

\* CtorGuard with the deadline computed anew at every check.
CtorGuardSliding ==
    /\ pc = "guard"
    /\ guardClock' = clock
    /\ timeout' = clock + connectiontimeout
    /\ pc' = IF clock < timeout' THEN "poll" ELSE "try"
    /\ UNCHANGED <<devcount, timer, connectiontimeout, self_timer, clock,
                   start, connection_status, sleepStart, pollsThisTick, calls>>
    /\ UNCHANGED sessVars

\* while monotonic() < timeout:
CtorGuard ==
    /\ pc = "guard"
    /\ guardClock' = clock
    /\ pc' = IF clock < timeout THEN "poll" ELSE "try"
    /\ UNCHANGED <<devcount, timer, connectiontimeout, self_timer, clock,
                   start, timeout, connection_status, sleepStart, pollsThisTick,
                   calls>>
    /\ UNCHANGED sessVars

\* CtorPoll without the break.
CtorPollNoBreak ==
    /\ pc = "poll"
    /\ pollsThisTick < MaxPollsPerTick
    /\ \E r \in PollResults(calls) :
         LET w == GetConnected(calls, r) IN
           /\ calls' = w.log
           /\ connection_status' = w.ret
           /\ pc' = "guard"
    /\ pollsThisTick' = pollsThisTick + 1
    /\ UNCHANGED <<devcount, timer, connectiontimeout, self_timer, clock,
                   start, timeout, guardClock, sleepStart>>
    /\ UNCHANGED sessVars

\* connection_status = self.GetConnected(); if connection_status == 1: break
CtorPoll ==
    /\ pc = "poll"
    /\ pollsThisTick < MaxPollsPerTick
    /\ \E r \in PollResults(calls) :
         LET w == GetConnected(calls, r) IN
           /\ calls' = w.log
           /\ connection_status' = w.ret
           /\ pc' = IF w.ret = 1 THEN "try" ELSE "guard"
    /\ pollsThisTick' = pollsThisTick + 1
    /\ UNCHANGED <<devcount, timer, connectiontimeout, self_timer, clock,
                   start, timeout, guardClock, sleepStart>>
    /\ UNCHANGED sessVars

\* CtorTry accepting only a connection made by the open call.
CtorTryOpenOnly ==
    /\ pc = "try"
    /\ pc' = IF connection_status = 1 /\ timeout = None THEN "path"
             ELSE "except"
    /\ UNCHANGED <<devcount, timer, connectiontimeout, self_timer, clock,
                   start, timeout, guardClock, connection_status, sleepStart,
                   pollsThisTick, calls>>
    /\ UNCHANGED sessVars

\* try: if connection_status == 1: ... else: raise Exception
CtorTry ==
    /\ pc = "try"
    /\ pc' = IF connection_status = 1 THEN "path" ELSE "except"
    /\ UNCHANGED <<devcount, timer, connectiontimeout, self_timer, clock,
                   start, timeout, guardClock, connection_status, sleepStart,
                   pollsThisTick, calls>>
    /\ UNCHANGED sessVars

\* dev_path = create_string_buffer(...); self.GetDevicePath(dev_path)
\* The path the library writes is UTF-8 text, as the source assumes, so
\* decoding it for the debug line does not raise.
CtorPath ==
    /\ pc = "path"
    /\ calls' = GetDevicePath(calls, DevPathBuffer).log
    /\ pc' = "sleep"
    /\ UNCHANGED <<devcount, timer, connectiontimeout, self_timer, clock,
                   start, timeout, guardClock, connection_status, sleepStart,
                   pollsThisTick>>
    /\ UNCHANGED sessVars

\* sleep(timer) is entered
CtorSleep ==
    /\ pc = "sleep"
    /\ sleepStart' = clock
    /\ pc' = "asleep"
    /\ UNCHANGED <<devcount, timer, connectiontimeout, self_timer, clock,
                   start, timeout, guardClock, connection_status, pollsThisTick,
                   calls>>
    /\ UNCHANGED sessVars

\* sleep(timer) returns, and with it __init__
CtorWake ==
    /\ pc = "asleep"
    /\ clock >= sleepStart + timer
    /\ pc' = "done"
    /\ UNCHANGED <<devcount, timer, connectiontimeout, self_timer, clock,
                   start, timeout, guardClock, connection_status, sleepStart,
                   pollsThisTick, calls>>
    /\ UNCHANGED sessVars

\* CtorExcept re-raising without closing the device.
CtorExceptNoClose ==
    /\ pc = "except"
    /\ pc' = "failed"
    /\ UNCHANGED <<devcount, timer, connectiontimeout, self_timer, clock,
                   start, timeout, guardClock, connection_status, sleepStart,
                   pollsThisTick, calls>>
    /\ UNCHANGED sessVars

\* except Exception as err: self.CloseDevice(); raise err
CtorExcept ==
    /\ pc = "except"
    /\ calls' = CloseDevice(calls).log
    /\ pc' = "failed"
    /\ UNCHANGED <<devcount, timer, connectiontimeout, self_timer, clock,
                   start, timeout, guardClock, connection_status, sleepStart,
                   pollsThisTick>>
    /\ UNCHANGED sessVars

\* The furthest the model lets the monotonic clock run at each position.
TickLimit ==
    IF pc \in {"open", "branch", "deadline"} THEN MaxStart
    ELSE IF pc = "asleep" THEN sleepStart + timer + MaxOvershoot
    ELSE IF pc \in {"done", "failed"} THEN 0
    ELSE MaxStart + MaxTimeout + MaxOvershoot

\* The monotonic clock advances.
Tick ==
    /\ clock < TickLimit
    /\ clock' = clock + 1
    /\ pollsThisTick' = 0
    /\ UNCHANGED <<pc, devcount, timer, connectiontimeout, self_timer,
                   start, timeout, guardClock, connection_status, sleepStart, calls>>
    /\ UNCHANGED sessVars

CtorStep ==
    \/ CtorOpen
    \/ CtorBranch
    \/ CtorDeadline
    \/ CtorGuard
    \/ CtorPoll
    \/ CtorTry
    \/ CtorPath
    \/ CtorSleep
    \/ CtorWake
    \/ CtorExcept

\* ------------------------------------------------- methods of a session
\* Sampled argument and result values of the declared ctypes types.
UIntValues == {0, 1, MsPerSecond}
FloatValues == {0, 12}
FlagValues == {0, 1}
FlashValues == {0, 1}
LoadDone == 100
LoadStates == {0, 50, LoadDone}

\* The caller's buffers of GetVariableData.
NameBuffer == "name"
ValueBuffer == "value"
UnitBuffer == "unit"
CommentBuffer == "comment"

\* How many calls of vendor function fn a record holds.
CountFn(log, fn) == Cardinality({i \in 1..Len(log) : log[i].fn = fn})

\* A caller invokes method `name` with `args` on a constructed session; w is
\* what the method does to an empty record and what it returns.
Invoke(name, args, w) ==
    /\ pc = "done"
    /\ nOps < MaxOps
    /\ op' = name
    /\ opArgs' = args
    /\ calls' = w.log
    /\ opRet' = w.ret
    /\ nOps' = nOps + 1
    /\ writes' = writes + CountFn(w.log, "dcdcSetVariableData")
    /\ UNCHANGED ctorVars

CallOpenDevice ==
    /\ \E t \in UIntValues, r \in UByteResults :
         Invoke("OpenDevice", <<t>>, OpenDevice(<<>>, t, r))
    /\ UNCHANGED envVars

CallOpenDeviceByCnt ==
    /\ \E dc \in 1..MaxDev, t \in UIntValues, r \in UByteResults :
         Invoke("OpenDeviceByCnt", <<dc, t>>, OpenDeviceByCnt(<<>>, dc, t, r))
    /\ UNCHANGED envVars

CallGetDevicePath ==
    /\ Invoke("GetDevicePath", <<DevPathBuffer>>,
              GetDevicePath(<<>>, DevPathBuffer))
    /\ UNCHANGED envVars

CallCloseDevice ==
    /\ Invoke("CloseDevice", <<>>, CloseDevice(<<>>))
    /\ UNCHANGED envVars

CallGetConnected ==
    /\ \E r \in UByteResults :
         Invoke("GetConnected", <<>>, GetConnected(<<>>, r))
    /\ UNCHANGED envVars

\* The getters of state variables declared c_ubyte.
CallUByteGetter ==
    /\ \E r \in UByteResults :
         \/ Invoke("GetTimeCfg", <<>>, GetTimeCfg(<<>>, r))
         \/ Invoke("GetVoltageCfg", <<>>, GetVoltageCfg(<<>>, r))
         \/ Invoke("GetMode", <<>>, GetMode(<<>>, r))
         \/ Invoke("GetState", <<>>, GetState(<<>>, r))
         \/ Invoke("GetEnabledPowerSwitch", <<>>, GetEnabledPowerSwitch(<<>>, r))
         \/ Invoke("GetEnabledOutput", <<>>, GetEnabledOutput(<<>>, r))
         \/ Invoke("GetEnabledAuxVOut", <<>>, GetEnabledAuxVOut(<<>>, r))
         \/ Invoke("GetFlagsStatus1", <<>>, GetFlagsStatus1(<<>>, r))
         \/ Invoke("GetFlagsStatus2", <<>>, GetFlagsStatus2(<<>>, r))
         \/ Invoke("GetFlagsVoltage", <<>>, GetFlagsVoltage(<<>>, r))
         \/ Invoke("GetFlagsTimer", <<>>, GetFlagsTimer(<<>>, r))
         \/ Invoke("GetFlashPointer", <<>>, GetFlashPointer(<<>>, r))
         \/ Invoke("GetVersionMajor", <<>>, GetVersionMajor(<<>>, r))
         \/ Invoke("GetVersionMinor", <<>>, GetVersionMinor(<<>>, r))
    /\ UNCHANGED envVars

\* The getters declared c_float.
CallFloatGetter ==
    /\ \E r \in FloatValues :
         \/ Invoke("GetVin", <<>>, GetVin(<<>>, r))
         \/ Invoke("GetVIgn", <<>>, GetVIgn(<<>>, r))
         \/ Invoke("GetVOut", <<>>, GetVOut(<<>>, r))
    /\ UNCHANGED envVars

\* The getters declared c_uint.
CallUIntGetter ==
    /\ \E r \in UIntValues :
         \/ Invoke("GetTimerWait", <<>>, GetTimerWait(<<>>, r))
         \/ Invoke("GetTimerVout", <<>>, GetTimerVout(<<>>, r))
         \/ Invoke("GetTimerVAux", <<>>, GetTimerVAux(<<>>, r))
         \/ Invoke("GetTimerPwSwitch", <<>>, GetTimerPwSwitch(<<>>, r))
         \/ Invoke("GetTimerOffDelay", <<>>, GetTimerOffDelay(<<>>, r))
         \/ Invoke("GetTimerHardOff", <<>>, GetTimerHardOff(<<>>, r))
         \/ Invoke("GetMaxVariableCnt", <<>>, GetMaxVariableCnt(<<>>, r))
    /\ UNCHANGED envVars

\* GetVersion with the two version bytes drawn from `bytes`.
CallGetVersionOf(bytes) ==
    /\ \E major \in bytes, minor \in bytes :
         Invoke("GetVersion", <<>>, GetVersion(<<>>, major, minor))
    /\ UNCHANGED envVars

CallGetVersion == CallGetVersionOf(UByteResults \cup {7, 10})

CallSetter ==
    /\ \/ \E on \in FlagValues :
            \/ Invoke("SetEnabledAuxVOut", <<on>>, SetEnabledAuxVOut(<<>>, on))
            \/ Invoke("SetEnabledPowerSwitch", <<on>>,
                      SetEnabledPowerSwitch(<<>>, on))
            \/ Invoke("SetEnabledOutput", <<on>>, SetEnabledOutput(<<>>, on))
            \/ Invoke("IncDecVOutVolatile", <<on>>,
                      IncDecVOutVolatile(<<>>, on))
       \/ \E vout \in FloatValues :
            Invoke("SetVOutVolatile", <<vout>>, SetVOutVolatile(<<>>, vout))
    /\ UNCHANGED envVars

\* The vendor library starts loading the flash variables.
CallLoadFlashValues ==
    /\ Invoke("LoadFlashValues", <<>>, LoadFlashValues(<<>>))
    /\ loadStarted' = TRUE
    /\ UNCHANGED <<loadComplete, flash, valueBuf, earlyRead>>

\* The vendor library reports its progress: 100 once a started load is done.
CallGetLoadState ==
    \E r \in (IF loadStarted THEN LoadStates ELSE {0}) :
      /\ Invoke("GetLoadState", <<>>, GetLoadState(<<>>, r))
      /\ loadComplete' = (loadComplete \/ r = LoadDone)
      /\ UNCHANGED <<loadStarted, flash, valueBuf, earlyRead>>

\* The vendor library returns 1 if variable cnt exists and fills the
\* buffers; `value` holds the variable's value only after a completed load
\* and anything before.
CallGetVariableData ==
    \E cnt \in 0..MaxCnt :
      LET exists == cnt < MaxCnt
          w == GetVariableData(<<>>, cnt, NameBuffer, ValueBuffer, UnitBuffer,
                               CommentBuffer, IF exists THEN 1 ELSE 0)
      IN  /\ Invoke("GetVariableData",
                    <<cnt, NameBuffer, ValueBuffer, UnitBuffer, CommentBuffer>>,
                    w)
          /\ valueBuf' \in (IF ~exists THEN {valueBuf}
                            ELSE IF loadComplete THEN {flash[cnt]}
                            ELSE FlashValues)
          /\ earlyRead' = IF loadComplete THEN earlyRead
                          ELSE <<[cnt |-> cnt, ret |-> w.ret,
                                  value |-> valueBuf']>>
          /\ UNCHANGED <<loadStarted, loadComplete, flash>>

\* The vendor library sets the value in its PC copy; the result is
\* undocumented.
CallSetVariableData ==
    \E cnt \in 0..MaxCnt, value \in FlashValues, r \in UByteResults :
      /\ Invoke("SetVariableData", <<cnt, value>>,
                SetVariableData(<<>>, cnt, value, r))
      /\ flash' = IF cnt < MaxCnt THEN [flash EXCEPT ![cnt] = value] ELSE flash
      /\ UNCHANGED <<loadStarted, loadComplete, valueBuf, earlyRead>>

CallSaveFlashValues ==
    /\ Invoke("SaveFlashValues", <<>>, SaveFlashValues(<<>>))
    /\ UNCHANGED envVars

SessionStep ==
    \/ CallOpenDevice
    \/ CallOpenDeviceByCnt
    \/ CallGetDevicePath
    \/ CallCloseDevice
    \/ CallGetConnected
    \/ CallUByteGetter
    \/ CallFloatGetter
    \/ CallUIntGetter
    \/ CallGetVersion
    \/ CallSetter
    \/ CallLoadFlashValues
    \/ CallGetLoadState
    \/ CallGetVariableData
    \/ CallSetVariableData
    \/ CallSaveFlashValues

\* ------------------------------------------------------- specifications
\* The construction of a session.
Init ==
    /\ CtorInit
    /\ SessionFresh
    /\ flash = [c \in 0..(MaxCnt - 1) |-> 0]

Next == CtorStep \/ Tick

Spec == Init /\ [][Next]_vars

\* The session of the self-test, Converter = DcDcConverter(1, 1, 5), with
\* the device found by the open call.
SessionInit ==
    /\ pc = "done"
    /\ devcount = 1
    /\ timer = 1
    /\ connectiontimeout = 5
    /\ self_timer = MsPerSecond
    /\ clock = 1
    /\ start = None
    /\ timeout = None
    /\ guardClock = None
    /\ connection_status = 1
    /\ sleepStart = 0
    /\ pollsThisTick = 0
    /\ calls = GetDevicePath(OpenDeviceByCnt(<<>>, 1, MsPerSecond, 1).log,
                             DevPathBuffer).log
    /\ SessionFresh
    /\ flash \in [0..(MaxCnt - 1) -> FlashValues]

\* The methods of a constructed session, invoked in any order.
SessionSpec == SessionInit /\ [][SessionStep]_vars

\* GetVersion on a fresh session, over every pair of version bytes.
VersionNext == nOps = 0 /\ CallGetVersionOf(0..UByteMax)

VersionSpec == SessionInit /\ [][VersionNext]_vars

\* The construction under the scheduling of a running single-threaded
\* program whose monotonic clock keeps advancing.
LiveSpec == Spec /\ WF_vars(CtorStep) /\ WF_vars(Tick)

\* ------------------------------------------------------------ the claims
\* Indices of the recorded calls of vendor function fn.
CallsOf(fn) == {i \in 1..Len(calls) : calls[i].fn = fn}

\* Indices of the connection-status results that were 1.
Observed ==
    {i \in 1..Len(calls) :
        /\ calls[i].fn \in {"dcdcOpenDeviceByCnt", "dcdcGetConnected"}
        /\ calls[i].ret = 1}

OpenReturned(r) == calls # <<>> /\ calls[1].ret = r

Failing == pc \in {"except", "failed"}

\* C1: if OpenDeviceByCnt returns 0 and every GetConnected call returns 0,
\* no session is returned; the construction fails no earlier than the
\* monotonic clock reaching start + connectiontimeout, and CloseDevice is
\* invoked exactly once, as the last call before the error reaches the
\* caller.
C1_TimeoutFailsAndCloses ==
    (/\ OpenReturned(0)
     /\ \A i \in CallsOf("dcdcGetConnected") : calls[i].ret = 0)
    => /\ pc \notin {"path", "sleep", "asleep", "done"}
       /\ Failing => /\ timeout = start + connectiontimeout
                      /\ guardClock >= timeout
                      /\ clock >= start + connectiontimeout
       /\ pc = "failed" => /\ Cardinality(CallsOf("dcdcCloseDevice")) = 1
                            /\ calls[Len(calls)].fn = "dcdcCloseDevice"
       /\ pc # "failed" => CallsOf("dcdcCloseDevice") = {}

C1_Witness ==
    /\ pc = "failed"
    /\ OpenReturned(0)
    /\ connectiontimeout > 0
    /\ Cardinality(CallsOf("dcdcGetConnected")) >= 2
    /\ \A i \in CallsOf("dcdcGetConnected") : calls[i].ret = 0

\* What C2, C3 and C4 say of a construction that observed a connection:
\* nothing is polled after the result 1, and the device is not closed.
StopsAtFirstOne ==
    /\ Cardinality(Observed) = 1
    /\ \A i \in Observed : \A j \in CallsOf("dcdcGetConnected") : j <= i
    /\ CallsOf("dcdcCloseDevice") = {}
    /\ ~Failing

\* C2 as stated: if OpenDeviceByCnt returns 0 and a later connection-status
\* check reports 1, the construction polled, stopped at the first check
\* returning 1 and succeeds, CloseDevice not invoked, before the configured
\* timeout has elapsed.
C2_SucceedsBeforeDeadline ==
    (OpenReturned(0) /\ Observed # {})
    => /\ StopsAtFirstOne
       /\ pc = "done" => clock < timeout

\* C2 amended: if OpenDeviceByCnt returns 0 and a later connection-status
\* check reports 1, the construction polled, stopped at the first check
\* returning 1 and succeeds, CloseDevice not invoked; the loop condition
\* that admitted this check read the clock before the deadline (the
\* constructor itself returns one sleep(timer) later, possibly past it).
C2_ConnectsBeforeDeadline ==
    (OpenReturned(0) /\ Observed # {})
    => /\ StopsAtFirstOne
       /\ Observed \subseteq CallsOf("dcdcGetConnected")
       /\ timeout = start + connectiontimeout
       /\ guardClock < timeout
       /\ connection_status = 1

\* A connection found by the second poll, no time lost between the loop
\* condition and the sleep, a sleep of exactly timer seconds: the constructor
\* returns at or after the deadline.
C2_Witness ==
    /\ pc = "done"
    /\ OpenReturned(0)
    /\ Observed # {}
    /\ Cardinality(CallsOf("dcdcGetConnected")) >= 2
    /\ sleepStart = guardClock
    /\ timer > 0
    /\ clock = sleepStart + timer
    /\ clock >= timeout

\* C3: if OpenDeviceByCnt returns 1 the construction succeeds without
\* entering the polling loop: GetConnected and CloseDevice are invoked
\* zero times and no deadline is ever set.
C3_ImmediateOpenSkipsLoop ==
    OpenReturned(1)
    => /\ CallsOf("dcdcGetConnected") = {}
       /\ CallsOf("dcdcCloseDevice") = {}
       /\ timeout = None
       /\ pc \notin {"deadline", "guard", "poll", "except", "failed"}

C3_Witness ==
    /\ pc = "done"
    /\ OpenReturned(1)
    /\ Len(calls) = 2

SinceObserved ==
    LET i == CHOOSE k \in Observed : TRUE
    IN  SubSeq(calls, i + 1, Len(calls))

\* C5: a successful construction blocked, after the connection was
\* observed, for the refresh interval of the open call (the open call got
\* timer * 1000 milliseconds, the block lasted at least that long), and
\* between the observed connection and the end of the block the library
\* was asked for the device path and nothing else.
C5_BlocksOneRefreshInterval ==
    /\ Observed # {}
       => /\ Len(SinceObserved) <= 1
          /\ \A j \in 1..Len(SinceObserved) :
                SinceObserved[j].fn = "dcdcGetDevicePath"
    /\ pc = "done"
       => /\ calls[1].fn = "dcdcOpenDeviceByCnt"
          /\ calls[1].args = <<devcount, timer * MsPerSecond>>
          /\ (clock - sleepStart) * MsPerSecond >= calls[1].args[2]
          /\ Len(SinceObserved) = 1

C5_Witness ==
    /\ pc = "done"
    /\ timer > 1
    /\ clock = sleepStart + timer
    /\ CallsOf("dcdcGetConnected") # {}

InLoop == pc \in {"guard", "poll"}

\* C10: once the construction polls it runs to timeout or success and
\* terminates: the open call is issued exactly once and never again, the
\* deadline start + connectiontimeout is fixed at loop entry and never
\* changed, the loop is left exactly when a GetConnected call returned 1 or
\* the loop condition read the clock at or past the deadline, and, the
\* clock advancing, the construction ends in a session or in the error.
C10_PollingTerminates ==
    /\ [](pc # "open" => /\ Cardinality(CallsOf("dcdcOpenDeviceByCnt")) = 1
                          /\ CallsOf("dcdcOpenDevice") = {})
    /\ [](InLoop => timeout = start + connectiontimeout)
    /\ [][timeout # None => timeout' = timeout]_vars
    /\ [][(InLoop /\ ~InLoop')
           => /\ pc' = "try"
              /\ \/ pc = "poll" /\ connection_status' = 1
                 \/ pc = "guard" /\ clock >= timeout]_vars
    /\ [][(pc = "poll" /\ pc' = "guard") => connection_status' # 1]_vars
    /\ [][(pc = "guard" /\ pc' = "poll") => clock < timeout]_vars
    /\ (InLoop ~> pc \in {"done", "failed"})

C10_Witness ==
    /\ pc = "failed"
    /\ connectiontimeout = MaxTimeout
    /\ Cardinality(CallsOf("dcdcGetConnected")) > MaxPollsPerTick

\* C6 as stated: a GetVariableData read of an existing variable issued
\* before any load completed returns a result distinct from the result of
\* the same read issued after the library reported the 100% load state.
C6_EarlyReadIsDistinct ==
    (/\ op = "GetVariableData"
     /\ loadComplete
     /\ earlyRead # <<>>
     /\ earlyRead[1].cnt = opArgs[1]
     /\ earlyRead[1].ret = 1)
    => <<earlyRead[1].ret, earlyRead[1].value>> # <<opRet, valueBuf>>

\* C6 amended: a GetVariableData read returns the vendor's result code
\* unchanged (1 if the variable exists, else 0) from exactly one vendor
\* call, whether or not a load has completed; the binding defines no "not
\* yet valid" state and does not consult the load state.
C6_ReadIgnoresLoadState ==
    op = "GetVariableData"
    => /\ Len(calls) = 1
       /\ calls[1].fn = "dcdcGetVariableData"
       /\ opRet = calls[1].ret
       /\ opRet = (IF opArgs[1] < MaxCnt THEN 1 ELSE 0)

C6_Witness ==
    /\ op = "GetVariableData"
    /\ loadComplete
    /\ earlyRead # <<>>
    /\ earlyRead[1].cnt = opArgs[1]
    /\ earlyRead[1].ret = 1
    /\ <<earlyRead[1].ret, earlyRead[1].value>> = <<opRet, valueBuf>>

\* C7: SaveFlashValues invokes the vendor save-all function and nothing
\* else: the number of recorded dcdcSetVariableData writes is unchanged by
\* it, and is zero when it is the first method invoked on the session.
C7_SaveWritesNothing ==
    /\ [][(op' = "SaveFlashValues" /\ nOps' = nOps + 1)
           => /\ writes' = writes
              /\ Len(calls') = 1
              /\ calls'[1].fn = "dcdcSaveFlashValues"]_vars
    /\ []((op = "SaveFlashValues" /\ nOps = 1) => writes = 0)

C7_Witness ==
    /\ op = "SaveFlashValues"
    /\ nOps = 1
    /\ writes = 0
    /\ Len(calls) = 1

\* The decimal digits, as the claim reads them.
DigitValue(c) ==
    CASE c = "0" -> 0 [] c = "1" -> 1 [] c = "2" -> 2 [] c = "3" -> 3
      [] c = "4" -> 4 [] c = "5" -> 5 [] c = "6" -> 6 [] c = "7" -> 7
      [] c = "8" -> 8 [] c = "9" -> 9

IsDigit(c) == c \in {"0", "1", "2", "3", "4", "5", "6", "7", "8", "9"}

RECURSIVE DecimalValue(_)
DecimalValue(s) ==
    IF s = <<>> THEN 0
    ELSE 10 * DecimalValue(SubSeq(s, 1, Len(s) - 1)) + DigitValue(s[Len(s)])

\* s is the decimal text of n: digits only, no leading zero, value n.
IsDecimalOf(s, n) ==
    /\ Len(s) >= 1
    /\ \A i \in 1..Len(s) : IsDigit(s[i])
    /\ Len(s) > 1 => s[1] # "0"
    /\ DecimalValue(s) = n

\* C8: GetVersion reads the major and the minor version getter once each,
\* in this order, and returns the decimal text of major, a '.', and the
\* decimal text of minor, for every pair of bytes (2 and 7 give "2.7").
C8_VersionIsMajorDotMinor ==
    op = "GetVersion"
    => /\ Len(calls) = 2
       /\ calls[1].fn = "dcdcGetVersionMajor"
       /\ calls[2].fn = "dcdcGetVersionMinor"
       /\ Cardinality({k \in 1..Len(opRet) : opRet[k] = "."}) = 1
       /\ \E k \in 1..Len(opRet) :
             /\ opRet[k] = "."
             /\ IsDecimalOf(SubSeq(opRet, 1, k - 1), calls[1].ret)
             /\ IsDecimalOf(SubSeq(opRet, k + 1, Len(opRet)), calls[2].ret)
       /\ (calls[1].ret = 2 /\ calls[2].ret = 7) => opRet = <<"2", ".", "7">>

C8_Witness ==
    /\ op = "GetVersion"
    /\ calls[1].ret = 2
    /\ calls[2].ret = 7
    /\ opRet = <<"2", ".", "7">>

\* The vendor function each code-returning wrapper stands for.
Matching ==
    [OpenDevice |-> "dcdcOpenDevice",
     OpenDeviceByCnt |-> "dcdcOpenDeviceByCnt",
     GetConnected |-> "dcdcGetConnected",
     GetTimeCfg |-> "dcdcGetTimeCfg",
     GetVoltageCfg |-> "dcdcGetVoltageCfg",
     GetMode |-> "dcdcGetMode",
     GetState |-> "dcdcGetState",
     GetVin |-> "dcdcGetVin",
     GetVIgn |-> "dcdcGetVIgn",
     GetVOut |-> "dcdcGetVOut",
     GetEnabledPowerSwitch |-> "dcdcGetEnabledPowerSwitch",
     GetEnabledOutput |-> "dcdcGetEnabledOutput",
     GetEnabledAuxVOut |-> "dcdcGetEnabledAuxVOut",
     GetFlagsStatus1 |-> "dcdcGetFlagsStatus1",
     GetFlagsStatus2 |-> "dcdcGetFlagsStatus2",
     GetFlagsVoltage |-> "dcdcGetFlagsVoltage",
     GetFlagsTimer |-> "dcdcGetFlagsTimer",
     GetFlashPointer |-> "dcdcGetFlashPointer",
     GetTimerWait |-> "dcdcGetTimerWait",
     GetTimerVout |-> "dcdcGetTimerVout",
     GetTimerVAux |-> "dcdcGetTimerVAux",
     GetTimerPwSwitch |-> "dcdcGetTimerPwSwitch",
     GetTimerOffDelay |-> "dcdcGetTimerOffDelay",
     GetTimerHardOff |-> "dcdcGetTimerHardOff",
     GetVersionMajor |-> "dcdcGetVersionMajor",
     GetVersionMinor |-> "dcdcGetVersionMinor",
     GetLoadState |-> "dcdcGetLoadState",
     GetMaxVariableCnt |-> "dcdcGetMaxVariableCnt",
     GetVariableData |-> "dcdcGetVariableData",
     SetVariableData |-> "dcdcSetVariableData"]

\* C9: every wrapper that returns a vendor code performs exactly one call,
\* of the matching vendor function, with the caller's arguments unchanged,
\* and returns that call's result unchanged, whatever the result.
C9_WrappersPassThrough ==
    op \in DOMAIN Matching
    => /\ Len(calls) = 1
       /\ calls[1].fn = Matching[op]
       /\ calls[1].args = opArgs
       /\ opRet = calls[1].ret

C9_Witness ==
    /\ op = "OpenDevice"
    /\ opRet = 0
    /\ Len(calls) = 1
    /\ nOps > 1

\* C11: if OpenDeviceByCnt returns a code that is neither 0 nor 1 (any of
\* 2..255) the construction does not poll: GetConnected is invoked zero
\* times, no deadline is set or waited for, the construction fails, and
\* CloseDevice is invoked exactly once, the only call after the open call.
C11_OddOpenCodeFailsAtOnce ==
    (calls # <<>> /\ calls[1].ret \notin {0, 1})
    => /\ calls[1].fn = "dcdcOpenDeviceByCnt"
       /\ CallsOf("dcdcGetConnected") = {}
       /\ start = None
       /\ timeout = None
       /\ guardClock = None
       /\ pc \in {"branch", "try", "except", "failed"}
       /\ pc = "failed" => /\ Len(calls) = 2
                            /\ calls[2].fn = "dcdcCloseDevice"
       /\ pc # "failed" => Len(calls) = 1

C11_Witness ==
    /\ pc = "failed"
    /\ calls[1].fn = "dcdcOpenDeviceByCnt"
    /\ calls[1].ret \in 2..UByteMax
    /\ connectiontimeout > 0
    /\ clock = 0

====
